---- MODULE Spec2Model ----
(***************************************************************************)
(* Model of app.py, the medical-guide extractor: the structured OCR        *)
(* filter, the spatial field locator, the quality report and the batch     *)
(* loop of the Streamlit script.                                           *)
(*                                                                         *)
(* Strings are sequences of one-character strings, so that strip, join,    *)
(* substring and regular-expression search are computed, not assumed.      *)
(***************************************************************************)
EXTENDS Integers, Sequences, FiniteSets, TLC

VARIABLES
    raw_rows,        \* rows returned by pytesseract.image_to_data (filter spec)
    ocr_df,          \* the filtered OCR DataFrame
    label_pattern,   \* argument of the last find_value_near_label call
    max_distance_x,  \* argument of the last find_value_near_label call
    found_value,     \* result of the last find_value_near_label call
    extracted_data,  \* result of extract_medical_data_from_structure
    df,              \* DataFrame handed to generate_analysis_report
    report,          \* the KPIs computed by generate_analysis_report
    fpc,             \* position of the pure-function specifications
    uploaded_files,  \* st.file_uploader's current file set
    processed_data,  \* st.session_state.processed_data
    processed_src,   \* history: <<of this run, index>> of the document behind each row
    all_data,        \* the loop's accumulator
    all_src,         \* history: <<of this run, index>> of the document behind each entry
    i,               \* loop index (0-based, as enumerate gives it)
    pc,              \* position of the script run
    progress,        \* numerators k of the progress_bar.progress(k/n) calls issued
    completed        \* history: documents of this run whose loop body has finished

vars == <<raw_rows, ocr_df, label_pattern, max_distance_x, found_value,
          extracted_data, df, report, fpc, uploaded_files, processed_data,
          processed_src, all_data, all_src, i, pc, progress, completed>>

fvars == <<raw_rows, ocr_df, label_pattern, max_distance_x, found_value,
           extracted_data, df, report, fpc>>

bvars == <<uploaded_files, processed_data, processed_src, all_data, all_src,
           i, pc, progress, completed>>

(***************************************************************************)
(* Bounds of the model.                                                    *)
(***************************************************************************)
MaxRows == 3
MaxWords == 3
MaxRecords == 2
MaxFiles == 3

(***************************************************************************)
(* Text primitives.                                                        *)
(***************************************************************************)
\* the missing value of pandas: a sequence holding a token that is no character
NaN == <<"NaN">>

Whitespace == {" ", "\t", "\n"}

Digits == {"0", "1", "2", "3", "4", "5", "6", "7", "8", "9"}

UpperChars == <<"A", "B", "C", "D", "E", "F", "G", "H", "I", "J", "K", "L", "M",
                "N", "O", "P", "Q", "R", "S", "T", "U", "V", "W", "X", "Y", "Z",
                "Ç", "Ã">>

LowerChars == <<"a", "b", "c", "d", "e", "f", "g", "h", "i", "j", "k", "l", "m",
                "n", "o", "p", "q", "r", "s", "t", "u", "v", "w", "x", "y", "z",
                "ç", "ã">>

Lower(c) ==
    IF \E k \in 1..Len(UpperChars) : UpperChars[k] = c
    THEN LowerChars[CHOOSE k \in 1..Len(UpperChars) : UpperChars[k] = c]
    ELSE c

RECURSIVE LStrip(_)
LStrip(s) ==
    IF s # <<>> /\ Head(s) \in Whitespace THEN LStrip(Tail(s)) ELSE s

RECURSIVE RStrip(_)
RStrip(s) ==
    IF s # <<>> /\ s[Len(s)] \in Whitespace
    THEN RStrip(SubSeq(s, 1, Len(s) - 1))
    ELSE s

\* str.strip()
Strip(s) == RStrip(LStrip(s))

\* ' '.join(texts)
RECURSIVE Join(_)
Join(texts) ==
    IF texts = <<>> THEN <<>>
    ELSE IF Len(texts) = 1 THEN texts[1]
    ELSE texts[1] \o <<" ">> \o Join(Tail(texts))

(***************************************************************************)
(* Regular expressions: a pattern is a sequence of elements, each a        *)
(* character class taken once (star = FALSE) or any number of times        *)
(* (star = TRUE).                                                          *)
(***************************************************************************)
Lit(c) == [cls |-> {c}, star |-> FALSE]

Cls(S) == [cls |-> S, star |-> FALSE]

SStar == [cls |-> Whitespace, star |-> TRUE]

LitSeq(s) == [k \in 1..Len(s) |-> Lit(s[k])]

CharIn(c, cls, ic) ==
    \/ c \in cls
    \/ ic /\ \E d \in cls : Lower(d) = Lower(c)

\* pat[j..] matches a prefix of text[k..]
RECURSIVE MatchHere(_, _, _, _, _)
MatchHere(pat, j, text, k, ic) ==
    IF j > Len(pat) THEN TRUE
    ELSE IF pat[j].star
    THEN \/ MatchHere(pat, j + 1, text, k, ic)
         \/ /\ k <= Len(text)
            /\ CharIn(text[k], pat[j].cls, ic)
            /\ MatchHere(pat, j, text, k + 1, ic)
    ELSE /\ k <= Len(text)
         /\ CharIn(text[k], pat[j].cls, ic)
         /\ MatchHere(pat, j + 1, text, k + 1, ic)

\* Series.str.contains(pat, na=False, flags=...): re.search finds a match
\* anywhere in the text; a NaN text gives False.
Contains(text, pat, ic) ==
    /\ text # NaN
    /\ \E k \in 1..(Len(text) + 1) : MatchHere(pat, 1, text, k, ic)

GuiaPrincipalPattern ==
    LitSeq(<<"G", "u", "i", "a">>) \o <<SStar>>
        \o LitSeq(<<"P", "r", "i", "n", "c", "i", "p", "a", "l">>)

RegistroANSPattern ==
    LitSeq(<<"R", "e", "g", "i", "s", "t", "r", "o">>) \o <<SStar>>
        \o LitSeq(<<"A", "N", "S">>)

AutorizacaoPattern ==
    LitSeq(<<"A", "u", "t", "o", "r", "i", "z", "a">>)
        \o <<Cls({"ç", "c"}), Cls({"ã", "a"}), Lit("o")>>

NomePattern ==
    LitSeq(<<"1", "0">>) \o <<SStar, Lit("-"), SStar>>
        \o LitSeq(<<"N", "o", "m", "e">>)

DatePattern ==
    <<Cls(Digits), Cls(Digits), Lit("/"), Cls(Digits), Cls(Digits), Lit("/"),
      Cls(Digits), Cls(Digits), Cls(Digits), Cls(Digits)>>

NaoEncontrado ==
    <<"N", "ã", "o", " ", "e", "n", "c", "o", "n", "t", "r", "a", "d", "o">>

OcrFalhou == <<"O", "C", "R", " ", "f", "a", "l", "h", "o", "u">>

Fields == {"Número GUIA", "Registro ANS", "Data de Autorização", "Nome"}

(***************************************************************************)
(* extract_text_from_image: the filter over the rows of image_to_data.     *)
(* A row is [text, conf, left, top, width, height]; text is NaN or a       *)
(* string.  preprocess_image and the OCR engine are outside the model:     *)
(* their result, the raw rows, is the input.                               *)
(***************************************************************************)
MinConf == 30

ConfPassesGe(conf) == conf >= MinConf

ConfPasses(conf) == conf > MinConf

StripText(rows) == [k \in 1..Len(rows) |-> [rows[k] EXCEPT !.text = Strip(@)]]

extract_text_from_image(rows) ==
    LET s1 == SelectSeq(rows, LAMBDA r : r.text # NaN)
        s2 == SelectSeq(s1, LAMBDA r : ConfPasses(r.conf))
        s3 == StripText(s2)
    IN  SelectSeq(s3, LAMBDA r : r.text # <<>>)

(***************************************************************************)
(* find_value_near_label.  DataFrame.sort_values uses an unstable sort by  *)
(* default, so rows with equal 'left' may come out in any order: the       *)
(* function is modelled by the set of values it can return.                *)
(***************************************************************************)
LabelRows(odf, pat) ==
    {k \in 1..Len(odf) : Contains(odf[k].text, pat, TRUE)}

FirstOf(S) == CHOOSE k \in S : \A m \in S : k <= m

\* label_y_center = top + height / 2 is a float; the comparisons are done
\* on doubled integers, which is exact.
InSearchAreaStrict(w, label_row, maxd) ==
    LET label_x == label_row.left + label_row.width
    IN  /\ 2 * w.top >= 2 * label_row.top - label_row.height
        /\ 2 * w.top <= 2 * label_row.top + 3 * label_row.height
        /\ w.left > label_x
        /\ w.left <= label_x + maxd

InSearchArea(w, label_row, maxd) ==
    LET label_x == label_row.left + label_row.width
    IN  /\ 2 * w.top >= 2 * label_row.top - label_row.height
        /\ 2 * w.top <= 2 * label_row.top + 3 * label_row.height
        /\ w.left >= label_x
        /\ w.left <= label_x + maxd

ValueRows(odf, label_row, maxd) ==
    {k \in 1..Len(odf) : InSearchArea(odf[k], label_row, maxd)}

\* the orders of the rows idx that sort_values(by='left') can produce
sort_values(odf, idx) ==
    {p \in [1..Cardinality(idx) -> idx] :
        /\ \A a, b \in DOMAIN p : a # b => p[a] # p[b]
        /\ \A a, b \in DOMAIN p : a < b => odf[p[a]].left <= odf[p[b]].left}

TextsOf(odf, p) == [k \in DOMAIN p |-> odf[p[k]].text]

find_value_near_label_blank(odf, pat, maxd) ==
    LET label_rows == LabelRows(odf, pat)
    IN  IF label_rows = {} THEN {<<>>}
        ELSE LET label_row == odf[FirstOf(label_rows)]
                 value_df == ValueRows(odf, label_row, maxd)
             IN  IF value_df = {} THEN {<<>>}
                 ELSE {Strip(Join(TextsOf(odf, p))) : p \in sort_values(odf, value_df)}

find_value_near_label(odf, pat, maxd) ==
    LET label_rows == LabelRows(odf, pat)
    IN  IF label_rows = {} THEN {NaoEncontrado}
        ELSE LET label_row == odf[FirstOf(label_rows)]
                 value_df == ValueRows(odf, label_row, maxd)
             IN  IF value_df = {} THEN {NaoEncontrado}
                 ELSE {Strip(Join(TextsOf(odf, p))) : p \in sort_values(odf, value_df)}

(***************************************************************************)
(* extract_medical_data_from_structure                                     *)
(***************************************************************************)
GuiaDistance == 250
AnsDistance == 200
DataDistance == 250
NomeDistance == 600

\* re.search(r'(\d{2}/\d{2}/\d{4})', value): the leftmost match, or the value
DateOf(value) ==
    LET starts == {k \in 1..Len(value) : MatchHere(DatePattern, 1, value, k, FALSE)}
    IN  IF starts = {} THEN value
        ELSE SubSeq(value, FirstOf(starts), FirstOf(starts) + Len(DatePattern) - 1)

MkData(g, a, d, n) ==
    [f \in Fields |->
        CASE f = "Número GUIA" -> g
          [] f = "Registro ANS" -> a
          [] f = "Data de Autorização" -> d
          [] f = "Nome" -> n]

extract_medical_data_from_structure(odf) ==
    IF odf = <<>>
    THEN {MkData(OcrFalhou, OcrFalhou, OcrFalhou, OcrFalhou)}
    ELSE {MkData(g, a, DateOf(d), n) :
            g \in find_value_near_label(odf, GuiaPrincipalPattern, GuiaDistance),
            a \in find_value_near_label(odf, RegistroANSPattern, AnsDistance),
            d \in find_value_near_label(odf, AutorizacaoPattern, DataDistance),
            n \in find_value_near_label(odf, NomePattern, NomeDistance)}

(***************************************************************************)
(* Inputs of the pure-function specifications.                             *)
(***************************************************************************)
BSeq(S, n) == UNION {[1..m -> S] : m \in 0..n}

Row(text, conf, l, t, w, h) ==
    [text |-> text, conf |-> conf, left |-> l, top |-> t, width |-> w, height |-> h]

\* raw image_to_data rows: missing, blank, padded and plain text, at
\* confidences around the threshold
RawTexts == {NaN, <<" ", " ">>, <<" ", "x", " ">>, <<"A", "N", "S">>}

RawConfs == {MinConf - 1, MinConf, MinConf + 1}

RawRows == {Row(t, c, 100, 50, 80, 20) : t \in RawTexts, c \in RawConfs}

TRegistro == <<"R", "e", "g", "i", "s", "t", "r", "o">>
TANS == <<"A", "N", "S">>
TValue1 == <<"4", "1", "9", "0", "1", "0">>
TValue2 == <<"A", "B">>
TDate == <<"e", "m", "1", "2", "/", "0", "5", "/", "2", "0", "2", "4">>
TMaria == <<"M", "A", "R", "I", "A">>

\* filtered words: the four labels as single words, a label split in two
\* words, values inside, on the border of and outside the search area
LocateWords ==
    { Row(TRegistro \o TANS, 95, 100, 50, 80, 20),
      Row(TValue1, 95, 190, 48, 40, 20),
      Row(TValue2, 95, 240, 50, 30, 20),
      Row(TRegistro, 95, 100, 50, 40, 20),
      Row(TANS, 95, 145, 50, 35, 20),
      Row(<<"A", "u", "t", "o", "r", "i", "z", "a", "c", "a", "o">>, 95, 100, 50, 80, 20),
      Row(TDate, 95, 190, 50, 60, 20),
      Row(<<"1", "0", "-", "N", "o", "m", "e">>, 95, 100, 50, 80, 20),
      Row(TMaria, 95, 700, 50, 60, 20),
      Row(<<"G", "U", "I", "A", "P", "R", "I", "N", "C", "I", "P", "A", "L">>, 95, 100, 50, 80, 20),
      Row(<<"X">>, 95, 180, 40, 5, 20),
      Row(<<"Y">>, 95, 380, 80, 5, 20),
      Row(<<"r", "e", "g", "i", "s", "t", "r", "o", "a", "n", "s">>, 95, 100, 200, 80, 20) }

\* the four call sites of find_value_near_label
Calls ==
    { <<GuiaPrincipalPattern, GuiaDistance>>, <<RegistroANSPattern, AnsDistance>>,
      <<AutorizacaoPattern, DataDistance>>, <<NomePattern, NomeDistance>> }

None == <<"None">>

FuncIdle ==
    /\ raw_rows = <<>>
    /\ ocr_df = <<>>
    /\ label_pattern = None
    /\ max_distance_x = 0
    /\ found_value = None
    /\ extracted_data = None
    /\ df = <<>>
    /\ report = None
    /\ fpc = "start"

BatchIdle ==
    /\ uploaded_files = <<>>
    /\ processed_data = <<>>
    /\ processed_src = <<>>
    /\ all_data = <<>>
    /\ all_src = <<>>
    /\ i = 0
    /\ pc = "idle"
    /\ progress = <<>>
    /\ completed = 0

(***************************************************************************)
(* SpecFilter: extract_text_from_image applied to any raw rows.            *)
(***************************************************************************)
InitFilter ==
    /\ raw_rows \in BSeq(RawRows, MaxRows)
    /\ ocr_df = <<>>
    /\ label_pattern = None
    /\ max_distance_x = 0
    /\ found_value = None
    /\ extracted_data = None
    /\ df = <<>>
    /\ report = None
    /\ fpc = "start"
    /\ BatchIdle

ExtractText ==
    /\ fpc = "start"
    /\ ocr_df' = extract_text_from_image(raw_rows)
    /\ fpc' = "filtered"
    /\ UNCHANGED <<raw_rows, label_pattern, max_distance_x, found_value,
                   extracted_data, df, report>>
    /\ UNCHANGED bvars

NextFilter == ExtractText

SpecFilter == InitFilter /\ [][NextFilter]_vars

(***************************************************************************)
(* SpecLocate: the field locator applied to any filtered words.            *)
(***************************************************************************)
InitLocate ==
    /\ raw_rows = <<>>
    /\ ocr_df \in BSeq(LocateWords, MaxWords)
    /\ label_pattern = None
    /\ max_distance_x = 0
    /\ found_value = None
    /\ extracted_data = None
    /\ df = <<>>
    /\ report = None
    /\ fpc = "start"
    /\ BatchIdle

FindValue ==
    /\ fpc = "start"
    /\ \E c \in Calls :
        /\ label_pattern' = c[1]
        /\ max_distance_x' = c[2]
        /\ found_value' \in find_value_near_label(ocr_df, c[1], c[2])
    /\ fpc' = "found"
    /\ UNCHANGED <<raw_rows, ocr_df, extracted_data, df, report>>
    /\ UNCHANGED bvars

ExtractData ==
    /\ fpc = "start"
    /\ extracted_data' \in extract_medical_data_from_structure(ocr_df)
    /\ fpc' = "extracted"
    /\ UNCHANGED <<raw_rows, ocr_df, label_pattern, max_distance_x, found_value,
                   df, report>>
    /\ UNCHANGED bvars

NextLocate == FindValue \/ ExtractData

SpecLocate == InitLocate /\ [][NextLocate]_vars

(***************************************************************************)
(* Properties of the OCR filter (SpecFilter).                              *)
(***************************************************************************)
\* the k-th smallest element of a set of indices
NthOf(S, k) == CHOOSE m \in S : Cardinality({n \in S : n <= m}) = k

\* ocr_df is raw_rows restricted, in order, to the rows Keep accepts, each
\* with its text stripped
C8_ResultIs(Keep(_)) ==
    LET kept == {k \in 1..Len(raw_rows) : Keep(raw_rows[k])}
    IN  /\ Len(ocr_df) = Cardinality(kept)
        /\ \A j \in 1..Len(ocr_df) :
              ocr_df[j] = [raw_rows[NthOf(kept, j)] EXCEPT !.text = Strip(@)]

C8_NonBlank(r) == r.text # NaN /\ Strip(r.text) # <<>>

\* C8 as stated: the filter keeps, in order, exactly the rows with non-blank
\* text and confidence not below 30, so a non-blank row of confidence
\* exactly 30 is kept.
C8_KeepsConfidenceAtLeast30 ==
    fpc = "filtered" => C8_ResultIs(LAMBDA r : C8_NonBlank(r) /\ r.conf >= 30)

\* C8 as amended: the filter keeps, in order, exactly the rows with non-blank
\* text and confidence strictly above 30; a row of confidence exactly 30 is
\* dropped.
C8_KeepsConfidenceAbove30 ==
    fpc = "filtered" => C8_ResultIs(LAMBDA r : C8_NonBlank(r) /\ r.conf > 30)

\* a run where a non-blank row at confidence 30 was dropped, a blank row was
\* dropped and a row was kept
C8_Witness ==
    /\ fpc = "filtered"
    /\ \E k \in 1..Len(raw_rows) : C8_NonBlank(raw_rows[k]) /\ raw_rows[k].conf = 30
    /\ \E k \in 1..Len(raw_rows) : ~C8_NonBlank(raw_rows[k]) /\ raw_rows[k].conf > 30
    /\ Len(ocr_df) = 1
    /\ ocr_df[1].text = <<"x">>

(***************************************************************************)
(* Properties of the field locator (SpecLocate).                           *)
(***************************************************************************)
\* C4: every field of an extraction record is present and holds a non-empty
\* string: a matched value, the not-found sentinel or the error sentinel.
C4_FieldsPopulated ==
    fpc = "extracted" =>
        /\ DOMAIN extracted_data = Fields
        /\ \A f \in Fields :
              /\ extracted_data[f] # NaN
              /\ extracted_data[f] # <<>>
              /\ Strip(extracted_data[f]) # <<>>

\* a record with a matched field next to a field that was not found
C4_Witness ==
    /\ fpc = "extracted"
    /\ extracted_data["Registro ANS"] = TValue1
    /\ extracted_data["Nome"] = NaoEncontrado

\* the search rectangle as the specification words it: top within the label's
\* vertical centre +- its height, left from the label's right edge to that
\* edge plus the maximum distance (centre and bounds doubled)
C7_InRectangle(w, lab, maxd) ==
    LET centre2 == 2 * lab.top + lab.height
        edge == lab.left + lab.width
    IN  /\ 2 * w.top - centre2 <= 2 * lab.height
        /\ centre2 - 2 * w.top <= 2 * lab.height
        /\ edge <= w.left
        /\ w.left - edge <= maxd

C7_Example ==
    << Row(TRegistro \o TANS, 95, 100, 50, 80, 20),
       Row(TValue1, 95, 190, 48, 40, 20),
       Row(TValue2, 95, 240, 50, 30, 20) >>

\* C7: when a label word matches and words lie in the search rectangle, the
\* result is the texts of exactly those words, by ascending left, joined by
\* single spaces; on the specified example it is the two value words.
C7_SpatialResult ==
    fpc = "found" =>
        LET labels == {k \in 1..Len(ocr_df) : Contains(ocr_df[k].text, label_pattern, TRUE)}
        IN  /\ labels # {} =>
                LET lab == ocr_df[NthOf(labels, 1)]
                    rect == {k \in 1..Len(ocr_df) :
                                C7_InRectangle(ocr_df[k], lab, max_distance_x)}
                IN  rect # {} =>
                        \E p \in [1..Cardinality(rect) -> rect] :
                            /\ \A a, b \in DOMAIN p : a # b => p[a] # p[b]
                            /\ \A a, b \in DOMAIN p :
                                  a < b => ocr_df[p[a]].left <= ocr_df[p[b]].left
                            /\ found_value = Join([k \in DOMAIN p |-> ocr_df[p[k]].text])
            /\ (ocr_df = C7_Example /\ max_distance_x = 200) =>
                  found_value = TValue1 \o <<" ">> \o TValue2

\* the specified example, located
C7_Witness ==
    /\ fpc = "found"
    /\ ocr_df = C7_Example
    /\ max_distance_x = 200
    /\ found_value = TValue1 \o <<" ">> \o TValue2

\* the texts of the words a..b joined as the line reads
C10_RunText(a, b) == Join([k \in 1..(b - a + 1) |-> ocr_df[a + k - 1].text])

\* the words a..b are a label that OCR emitted as separate words: together
\* they match the pattern, no shorter run inside them does
C10_IsSplitLabel(a, b) ==
    /\ a < b
    /\ Contains(C10_RunText(a, b), label_pattern, TRUE)
    /\ \A c, d \in a..b :
          (c <= d /\ <<c, d>> # <<a, b>>) => ~Contains(C10_RunText(c, d), label_pattern, TRUE)

\* the box of the run a..b: from the first word's left to the last word's
\* right edge, on the first word's line
C10_RunBox(a, b) ==
    Row(<<>>, 95, ocr_df[a].left, ocr_df[a].top,
        ocr_df[b].left + ocr_df[b].width - ocr_df[a].left, ocr_df[a].height)

\* C10: when no single word matches the label, consecutive words a..b
\* together spell it, and a word lies in the search rectangle to the right
\* of that run, the locator returns a value, not the not-found sentinel.
C10_LabelRunLocated ==
    fpc = "found" =>
        \A a, b \in 1..Len(ocr_df) :
            (/\ C10_IsSplitLabel(a, b)
             /\ \A k \in 1..Len(ocr_df) : ~Contains(ocr_df[k].text, label_pattern, TRUE)
             /\ \E k \in 1..Len(ocr_df) :
                   /\ k < a \/ k > b
                   /\ C7_InRectangle(ocr_df[k], C10_RunBox(a, b), max_distance_x))
            => found_value # NaoEncontrado

(***************************************************************************)
(* generate_analysis_report: the KPIs of the quality report.  A row of df  *)
(* maps the five columns to strings.                                       *)
(***************************************************************************)
Columns == {"Arquivo"} \cup Fields

MkRow(name, data) == [c \in Columns |-> IF c = "Arquivo" THEN name ELSE data[c]]

NenhumDado == <<"Nenhum dado para analisar.">>

\* row.astype(str).str.contains('Não encontrado').any(), over every column
HasPendencia(row) ==
    \E c \in Columns : Contains(row[c], LitSeq(NaoEncontrado), FALSE)

CountIn(rows, col) ==
    Cardinality({k \in 1..Len(rows) : Contains(rows[k][col], LitSeq(NaoEncontrado), FALSE)})

generate_analysis_report(d) ==
    LET total_guias == Len(d)
        df_pendencias == SelectSeq(d, HasPendencia)
        guias_com_pendencia == Len(df_pendencias)
        guias_completas == total_guias - guias_com_pendencia
        failing == IF guias_com_pendencia > 0
                   THEN {c \in Columns : c # "Arquivo" /\ CountIn(df_pendencias, c) > 0}
                   ELSE {}
    IN  IF total_guias = 0 THEN NenhumDado
        ELSE [ total_guias |-> total_guias,
               guias_completas |-> guias_completas,
               guias_com_pendencia |-> guias_com_pendencia,
               \* percentual_sucesso, as the fraction numerator / denominator
               percentual_sucesso |-> <<guias_completas * 100, total_guias>>,
               campos_faltantes |-> [c \in failing |-> CountIn(df_pendencias, c)],
               arquivos |-> [k \in 1..guias_com_pendencia |-> df_pendencias[k]["Arquivo"]] ]

(***************************************************************************)
(* SpecReport: the report over any batch, as edited by the user.           *)
(***************************************************************************)
FileA == <<"a", ".", "p", "d", "f">>

FileNaoEncontrado == NaoEncontrado \o <<".", "p", "d", "f">>

ReportRows ==
    {MkRow(name, MkData(g, a, d, n)) :
        name \in {FileA, FileNaoEncontrado},
        g \in {TValue1, NaoEncontrado}, a \in {TValue1, NaoEncontrado},
        d \in {TValue1, NaoEncontrado}, n \in {TMaria, NaoEncontrado}}

InitReport ==
    /\ raw_rows = <<>>
    /\ ocr_df = <<>>
    /\ label_pattern = None
    /\ max_distance_x = 0
    /\ found_value = None
    /\ extracted_data = None
    /\ df \in BSeq(ReportRows, MaxRecords)
    /\ report = None
    /\ fpc = "start"
    /\ BatchIdle

GenerateReport ==
    /\ fpc = "start"
    /\ report' = generate_analysis_report(df)
    /\ fpc' = "reported"
    /\ UNCHANGED <<raw_rows, ocr_df, label_pattern, max_distance_x, found_value,
                   extracted_data, df>>
    /\ UNCHANGED bvars

NextReport == GenerateReport

SpecReport == InitReport /\ [][NextReport]_vars

C9_FieldFailures(f) ==
    IF f \in DOMAIN report.campos_faltantes THEN report.campos_faltantes[f] ELSE 0

\* C9: for a batch of n >= 1 records, complete + incomplete = n; a record is
\* incomplete exactly when one of its four extracted fields is the not-found
\* sentinel, whatever the document is called; each field's failure count is
\* the number of records where that field is not found.
C9_ReportCounts ==
    (fpc = "reported" /\ Len(df) >= 1) =>
        /\ report.guias_completas + report.guias_com_pendencia = Len(df)
        /\ report.guias_com_pendencia =
              Cardinality({k \in 1..Len(df) : \E f \in Fields : df[k][f] = NaoEncontrado})
        /\ \A f \in Fields :
              C9_FieldFailures(f) =
                  Cardinality({k \in 1..Len(df) : df[k][f] = NaoEncontrado})

(***************************************************************************)
(* The script run: the batch loop over the uploaded files.                 *)
(*                                                                         *)
(* A document is [name, type, failure, rows]: failure says where reading   *)
(* it raises ("read": uploaded_file.read(); "decode": opening or           *)
(* rasterizing the file; "ocr": the OCR engine; "no": nowhere), rows is    *)
(* what image_to_data returns for its page.                                *)
(***************************************************************************)
Doc(name, type, failure, rows) ==
    [name |-> name, type |-> type, failure |-> failure, rows |-> rows]

PageA ==
    << Row(NaN, -1, 0, 0, 1000, 1000),
       Row(TRegistro \o TANS, 95, 100, 50, 80, 20),
       Row(TValue1, 95, 190, 48, 40, 20),
       Row(TValue2, 95, 240, 50, 30, 20) >>

PageBlank ==
    << Row(NaN, -1, 0, 0, 1000, 1000),
       Row(<<" ">>, 95, 100, 50, 10, 20),
       Row(TValue1, 30, 190, 48, 40, 20) >>

Docs ==
    { Doc(FileA, "application/pdf", "no", PageA),
      Doc(<<"c", ".", "p", "n", "g">>, "image/png", "decode", <<>>),
      Doc(<<"d", ".", "p", "n", "g">>, "image/png", "no", PageBlank),
      Doc(<<"e", ".", "p", "d", "f">>, "application/pdf", "read", <<>>) }

\* process_uploaded_file: raised says that the exception of line 68, which
\* is outside the try block, leaves the function; every failure inside the
\* try block gives the empty DataFrame.
process_uploaded_file(doc) ==
    IF doc.failure = "read" THEN [raised |-> TRUE, frame |-> <<>>]
    ELSE IF doc.type = "application/pdf"
    THEN IF doc.failure \in {"decode", "ocr"}
         THEN [raised |-> FALSE, frame |-> <<>>]
         ELSE [raised |-> FALSE, frame |-> extract_text_from_image(doc.rows)]
    ELSE IF doc.failure \in {"decode", "ocr"}
         THEN [raised |-> FALSE, frame |-> <<>>]
         ELSE [raised |-> FALSE, frame |-> extract_text_from_image(doc.rows)]

AppendFirst(list, x) == <<x>> \o list

\* all_data.append(extracted_data)
ListAppend(list, x) == Append(list, x)

Init == FuncIdle /\ BatchIdle

\* history: the rows of the stored batch now come from an earlier run
MarkOld(src) == [k \in 1..Len(src) |-> <<FALSE, src[k][2]>>]

\* A script run starts with a non-empty file set: lines 294-296.
StartRun ==
    /\ pc \in {"idle", "shown", "failed"}
    /\ \E files \in BSeq(Docs, MaxFiles) \ {<<>>} : uploaded_files' = files
    /\ all_data' = <<>>
    /\ all_src' = <<>>
    /\ progress' = <<>>
    /\ i' = 0
    /\ completed' = 0
    /\ pc' = "progress"
    /\ processed_src' = MarkOld(processed_src)
    /\ UNCHANGED processed_data
    /\ UNCHANGED fvars

\* lines 299-300: the progress bar is set to (i + 1) / n
ReportProgress ==
    /\ pc = "progress"
    /\ progress' = Append(progress, i + 1)
    /\ pc' = "process"
    /\ UNCHANGED <<uploaded_files, processed_data, processed_src, all_data,
                   all_src, i, completed>>
    /\ UNCHANGED fvars

\* lines 302-313, for a document that process_uploaded_file returns from
ProcessDocument ==
    /\ pc = "process"
    /\ LET doc == uploaded_files[i + 1]
           res == process_uploaded_file(doc)
       IN  /\ ~res.raised
           /\ IF res.frame # <<>>
              THEN \E data \in extract_medical_data_from_structure(res.frame) :
                      /\ all_data' = ListAppend(all_data, MkRow(doc.name, data))
                      /\ all_src' = ListAppend(all_src, <<TRUE, i + 1>>)
              ELSE UNCHANGED <<all_data, all_src>>
    /\ i' = i + 1
    /\ completed' = completed + 1
    /\ pc' = IF i + 1 < Len(uploaded_files) THEN "progress" ELSE "finish"
    /\ UNCHANGED <<uploaded_files, processed_data, processed_src, progress>>
    /\ UNCHANGED fvars

\* line 302, for a document whose read raises: the exception leaves the
\* loop and ends the script run; the session state is as it was
ProcessRaises ==
    /\ pc = "process"
    /\ process_uploaded_file(uploaded_files[i + 1]).raised
    /\ pc' = "failed"
    /\ UNCHANGED <<uploaded_files, processed_data, processed_src, all_data,
                   all_src, i, progress, completed>>
    /\ UNCHANGED fvars

\* lines 316-320: the batch is stored when the run produced a record; the
\* results are then shown
FinishRun ==
    /\ pc = "finish"
    /\ IF all_data # <<>>
       THEN /\ processed_data' = all_data
            /\ processed_src' = all_src
       ELSE UNCHANGED <<processed_data, processed_src>>
    /\ pc' = "shown"
    /\ UNCHANGED <<uploaded_files, all_data, all_src, i, progress, completed>>
    /\ UNCHANGED fvars

Next ==
    \/ StartRun
    \/ ReportProgress
    \/ ProcessDocument
    \/ ProcessRaises
    \/ FinishRun

Spec == Init /\ [][Next]_vars

(***************************************************************************)
(* Properties of the batch loop (Spec).                                    *)
(***************************************************************************)
DocFailed(doc) == doc.failure # "no"

YieldsWords(doc) == doc.failure = "no" /\ extract_text_from_image(doc.rows) # <<>>

\* C1: after a run over n documents the batch holds n records, the j-th
\* tagged with the j-th document's name, and the record of a failed document
\* has its four fields set to the error sentinel, which is not the not-found
\* sentinel.
C1_OneRecordPerDocument ==
    pc = "shown" =>
        /\ OcrFalhou # NaoEncontrado
        /\ Len(all_data) = Len(uploaded_files)
        /\ \A j \in 1..Len(uploaded_files) :
              /\ all_data[j]["Arquivo"] = uploaded_files[j].name
              /\ DocFailed(uploaded_files[j]) =>
                    \A f \in Fields : all_data[j][f] = OcrFalhou

\* C2: when a run has ended, every document after a failed one has been
\* processed, and has its record in the batch if its OCR yields words.
C2_LaterDocumentsProcessed ==
    pc \in {"shown", "failed"} =>
        \A f, j \in 1..Len(uploaded_files) :
            (f < j /\ DocFailed(uploaded_files[f])) =>
                /\ completed >= j
                /\ YieldsWords(uploaded_files[j]) =>
                      \E k \in 1..Len(all_data) :
                          /\ all_src[k] = <<TRUE, j>>
                          /\ all_data[k]["Arquivo"] = uploaded_files[j].name

C3_Ordered(src) ==
    \A a, b \in 1..Len(src) : a < b => src[a][2] < src[b][2]

\* C3: the records of the batch, while it is built and once it is stored,
\* are in the order of their documents in the upload, and each carries its
\* document's name.
C3_BatchOrder ==
    /\ Len(all_data) = Len(all_src)
    /\ Len(processed_data) = Len(processed_src)
    /\ C3_Ordered(all_src)
    /\ C3_Ordered(processed_src)
    /\ \A k \in 1..Len(all_data) :
          all_data[k]["Arquivo"] = uploaded_files[all_src[k][2]].name

\* a stored batch of two records, from the first and the third document,
\* with a failed document between them
C3_Witness ==
    /\ pc = "shown"
    /\ Len(uploaded_files) = 3
    /\ DocFailed(uploaded_files[2])
    /\ processed_src = << <<TRUE, 1>>, <<TRUE, 3>> >>
    /\ processed_data = all_data

\* C5: after a run over a non-empty file set the stored batch holds only
\* records of that run's documents, also when every document failed.
C5_BatchReplaced ==
    pc = "shown" => \A k \in 1..Len(processed_src) : processed_src[k][1]

\* C6: a run over n documents issues n progress updates, and the update
\* reporting k/n is issued only after the k-th document is completed.
C6_ProgressAfterCompletion ==
    /\ \A k \in 1..Len(progress) : progress[k] = k
    /\ progress # <<>> => progress[Len(progress)] <= completed
    /\ pc = "shown" => Len(progress) = Len(uploaded_files)

====
